---- MODULE Spec2Model ----
(***************************************************************************)
(* The linaria stringifier of packages/postcss-linaria/src/stringify.ts:   *)
(* the escaping builder wrapper, the shared placeholder substitution and   *)
(* the node handlers of LinariaStringifier, over character sequences.      *)
(*                                                                         *)
(* A string is a sequence of one-character strings.  An optional value     *)
(* (a property that may be undefined) is a record [has, val].  Every call  *)
(* of stringify constructs a fresh LinariaStringifier, so every action     *)
(* below is one call on inputs drawn from bounded sets, and the variables  *)
(* hold what that call received, emitted and returned.                     *)
(***************************************************************************)
EXTENDS Integers, Sequences, FiniteSets, TLC

VARIABLES call, wrapped, sink, gen, result

vars == <<call, wrapped, sink, gen, result>>

---------------------------------------------------------------------------
(* Bounds of the model *)

MaxLen == 3

MaxTable == 2

MaxChildren == 2

---------------------------------------------------------------------------
(* Optional values and strings *)

None == [has |-> FALSE, val |-> <<>>]

Some(v) == [has |-> TRUE, val |-> v]

\* JS truthiness of an optional string: defined and not empty
Truthy(o) == o.has /\ o.val # <<>>

\* a ?? b on optional strings
Coalesce(o, d) == IF o.has THEN o.val ELSE d

Str(A, n) == UNION {[1..k -> A] : k \in 0..n}

RECURSIVE Concat(_)
Concat(ss) == IF ss = <<>> THEN <<>> ELSE Head(ss) \o Concat(Tail(ss))

\* String.prototype.indexOf(m, from), 1-based, 0 when there is none
IsAt(s, m, i) == /\ i + Len(m) - 1 <= Len(s)
                 /\ \A k \in 1..Len(m) : s[i + k - 1] = m[k]

IndexOf(s, m, from) ==
  LET hits == {i \in from..Len(s) : IsAt(s, m, i)}
  IN IF hits = {} THEN 0 ELSE CHOOSE i \in hits : \A j \in hits : i <= j

\* String.prototype.includes
Includes(s, m) == IndexOf(s, m, 1) # 0

\* String.prototype.split with a non-empty separator
RECURSIVE Split(_, _)
Split(s, m) ==
  LET i == IndexOf(s, m, 1)
  IN IF i = 0 THEN <<s>>
     ELSE <<SubSeq(s, 1, i - 1)>> \o Split(SubSeq(s, i + Len(m), Len(s)), m)

\* Array.prototype.join
RECURSIVE Join(_, _)
Join(parts, sep) ==
  IF parts = <<>> THEN <<>>
  ELSE IF Len(parts) = 1 THEN parts[1]
  ELSE parts[1] \o sep \o Join(Tail(parts), sep)

\* String.prototype.replace(/c/g, r) for a one-character pattern
ReplaceAll(s, c, r) == Concat([k \in 1..Len(s) |-> IF s[k] = c THEN r ELSE <<s[k]>>])

---------------------------------------------------------------------------
(* Number(string) on the model's alphabet: white space is trimmed, the     *)
(* empty string converts to 0, a string of decimal digits to its value and *)
(* everything else to NaN.  (Signs, fractions, exponents, radix prefixes   *)
(* and Infinity need characters the alphabet does not have.)               *)

Digits == {"0", "1", "2", "3", "4", "5", "6", "7", "8", "9"}

WhiteSpace == {" ", "\n", "\t"}

DigitVal(c) == CHOOSE d \in 0..9 : <<"0", "1", "2", "3", "4", "5", "6", "7", "8", "9">>[d + 1] = c

IsDigits(s) == s # <<>> /\ \A k \in 1..Len(s) : s[k] \in Digits

RECURSIVE Dec(_)
Dec(s) == IF s = <<>> THEN 0 ELSE 10 * Dec(SubSeq(s, 1, Len(s) - 1)) + DigitVal(s[Len(s)])

RECURSIVE Trim(_)
Trim(s) == IF s # <<>> /\ s[1] \in WhiteSpace THEN Trim(Tail(s))
           ELSE IF s # <<>> /\ s[Len(s)] \in WhiteSpace THEN Trim(SubSeq(s, 1, Len(s) - 1))
           ELSE s

NaN == [nan |-> TRUE, val |-> 0]

\* Number(x) of an optional string; Number(undefined) is NaN
Number(o) ==
  IF ~o.has THEN NaN
  ELSE IF Trim(o.val) = <<>> THEN [nan |-> FALSE, val |-> 0]
  ELSE IF IsDigits(Trim(o.val)) THEN [nan |-> FALSE, val |-> Dec(Trim(o.val))]
  ELSE NaN

---------------------------------------------------------------------------
(* The placeholder markers of ./util *)

placeholderText == <<"F">>

shortPlaceholderText == <<"S">>

\* expressions[i] of an optional table: undefined outside the table
Entry(expressions, n) ==
  IF expressions.has /\ n.val + 1 \in 1..Len(expressions.val)
  THEN Some(expressions.val[n.val + 1]) ELSE None

\* const [, x] = parts : the second element, undefined when there is none
Second(parts) == IF Len(parts) >= 2 THEN Some(parts[2]) ELSE None

---------------------------------------------------------------------------
(* substitutePlaceholders *)

\* SubstituteToken reading the entry after the one the index names
SubstituteTokenNextEntry(val, expressions) ==
  LET expressionIndex == Number(Second(Split(val, shortPlaceholderText)))
      expression == IF expressions.has /\ ~expressionIndex.nan
                    THEN Entry(expressions, [expressionIndex EXCEPT !.val = @ + 1]) ELSE None
  IN IF Truthy(expression) THEN expression.val ELSE val

\* the body of values.forEach: what is pushed to temp for one token
SubstituteToken(val, expressions) ==
  LET expressionIndexString == Second(Split(val, shortPlaceholderText))
      expressionIndex == Number(expressionIndexString)
      expression == IF expressions.has /\ ~expressionIndex.nan
                    THEN Entry(expressions, expressionIndex) ELSE None
  IN IF Truthy(expression) THEN expression.val ELSE val

\* substitutePlaceholders matching a token only when marker and index are all of it
substitutePlaceholdersWholeToken(stringWithPlaceholders, expressions) ==
  IF ~Includes(stringWithPlaceholders, shortPlaceholderText)
  THEN stringWithPlaceholders
  ELSE LET values == Split(stringWithPlaceholders, <<" ">>)
           temp == [k \in 1..Len(values) |->
                      IF Len(Split(values[k], shortPlaceholderText)) = 2
                         /\ Split(values[k], shortPlaceholderText)[1] = <<>>
                         /\ IsDigits(Split(values[k], shortPlaceholderText)[2])
                      THEN SubstituteToken(values[k], expressions) ELSE values[k]]
       IN Join(temp, <<" ">>)

substitutePlaceholders(stringWithPlaceholders, expressions) ==
  IF ~Includes(stringWithPlaceholders, shortPlaceholderText)
  THEN stringWithPlaceholders
  ELSE LET values == Split(stringWithPlaceholders, <<" ">>)
           temp == [k \in 1..Len(values) |-> SubstituteToken(values[k], expressions)]
       IN Join(temp, <<" ">>)

---------------------------------------------------------------------------
(* The builder wrapper of the constructor *)

NoNode == [type |-> "none", path |-> <<>>]

Frag(str, node, type) == [str |-> str, node |-> node, type |-> type]

\* the two characters the wrapper escapes; the lexer of TLA+ admits no backquote
\* inside a string, so the backtick character is written BT
BS == "\\"

BT == "BT"

\* Escape with the two replacements in the other order
EscapeBacktickFirst(str) == ReplaceAll(ReplaceAll(str, BT, <<BS, BT>>), BS, <<BS, BS>>)

\* str.replace(/\\/g, '\\\\').replace(/BT/g, '\\BT')
Escape(str) == ReplaceAll(ReplaceAll(str, BS, <<BS, BS>>), BT, <<BS, BT>>)

\* the call the wrapper makes on the caller's builder for one call it receives
wrappedBuilder(f) ==
  IF f.node = NoNode \/ f.node.type = "root"
  THEN Frag(f.str, f.node, f.type)
  ELSE Frag(Escape(f.str), f.node, f.type)

\* the caller's builder log for a sequence of calls of this.builder
Built(frags) == [k \in 1..Len(frags) |-> wrappedBuilder(frags[k])]

---------------------------------------------------------------------------
(* Syntax tree nodes.  Every node is a record of the same shape; a handler *)
(* reads the fields of its node type.  raws holds the raw slots and their  *)
(* linaria overrides as optional strings, the raw pairs {value, raw} of    *)
(* value and selector, and the root's expression table.                    *)

NoRaws ==
  [before |-> None, after |-> None, between |-> None,
   linariaBefore |-> None, linariaAfter |-> None, linariaBetween |-> None,
   left |-> None, right |-> None, important |-> None, ownSemicolon |-> None,
   codeBefore |-> None, codeAfter |-> None,
   value |-> None, selector |-> None,
   linariaValue |-> None, linariaSelector |-> None,
   semicolon |-> FALSE, linariaTemplateExpressions |-> None]

\* node.parent, as far as the generic printer reads it: the parent's type and
\* whether the node is its first child; a floating node has none
NoParent == [type |-> "none", first |-> FALSE]

Node(type) ==
  [type |-> type, text |-> <<>>, prop |-> <<>>, value |-> <<>>, selector |-> <<>>,
   important |-> FALSE, css |-> None, raws |-> NoRaws, nodes |-> <<>>,
   parent |-> NoParent]

\* the node argument handed to the builder: which node, by type and position
Ref(node, path) == [type |-> node.type, path |-> path]

\* what a handler does, in order: calls of this.builder ("emit"), delegations
\* to the generic printer and visits of stringify
Event(kind, str, node, type) == [kind |-> kind, str |-> str, node |-> node, type |-> type]

Emit(str, node, type) == <<Event("emit", str, node, type)>>

Did(kind, node) == <<Event(kind, <<>>, node, "none")>>

---------------------------------------------------------------------------
(* The generic printer, postcss/lib/stringifier, as far as the handlers    *)
(* call it.  Its style detection over the other nodes of the tree is taken *)
(* in the outcome of a tree that offers no sample: the default raw, a      *)
(* line break for before and after.                                        *)

DefaultRaw(detect) ==
  CASE detect = "colon" -> <<":", " ">>
    [] detect = "commentLeft" -> <<" ">>
    [] detect = "commentRight" -> <<" ">>
    [] detect = "beforeOpen" -> <<" ">>
    [] detect = "emptyBody" -> <<>>
    [] OTHER -> <<"\n">>

\* Stringifier.raw: the node's own raw when defined; nothing before the first
\* node of a root, a root of a document or a floating node; else the detected raw
Super_raw(node, own, detect) ==
  LET d == IF detect = "" THEN own ELSE detect
  IN IF node.raws[own].has THEN node.raws[own].val
     ELSE IF /\ d = "before"
             /\ \/ node.parent.type = "none"
                \/ node.parent.type = "root" /\ node.parent.first
                \/ node.parent.type = "document"
     THEN <<>>
     ELSE DefaultRaw(d)

\* Stringifier.rawValue: the raw text of a property whose raw pair is current
Super_rawValue(node, prop) ==
  LET value == node[prop]
      rawPair == node.raws[prop]
  IN IF rawPair.has /\ rawPair.val.value = value THEN rawPair.val.raw ELSE value

---------------------------------------------------------------------------
(* LinariaStringifier.raw and rawValue *)

\* raw returning an override whatever the generic raw value is
rawOverrideAlone(node, own, detect) ==
  IF own \in {"before", "after", "between"}
     /\ Truthy(node.raws[IF own = "before" THEN "linariaBefore"
                         ELSE IF own = "after" THEN "linariaAfter" ELSE "linariaBetween"])
  THEN node.raws[IF own = "before" THEN "linariaBefore"
                 ELSE IF own = "after" THEN "linariaAfter" ELSE "linariaBetween"].val
  ELSE Super_raw(node, own, detect)

\* raw returning linariaBefore whatever raws.before is
rawBeforeUnchecked(node, own, detect) ==
  IF own = "before" /\ Truthy(node.raws.linariaBefore)
  THEN node.raws.linariaBefore.val
  ELSE IF own = "after" /\ Truthy(node.raws.after) /\ Truthy(node.raws.linariaAfter)
  THEN node.raws.linariaAfter.val
  ELSE IF own = "between" /\ Truthy(node.raws.between) /\ Truthy(node.raws.linariaBetween)
  THEN node.raws.linariaBetween.val
  ELSE Super_raw(node, own, detect)

raw(node, own, detect) ==
  IF own = "before" /\ Truthy(node.raws.before) /\ Truthy(node.raws.linariaBefore)
  THEN node.raws.linariaBefore.val
  ELSE IF own = "after" /\ Truthy(node.raws.after) /\ Truthy(node.raws.linariaAfter)
  THEN node.raws.linariaAfter.val
  ELSE IF own = "between" /\ Truthy(node.raws.between) /\ Truthy(node.raws.linariaBetween)
  THEN node.raws.linariaBetween.val
  ELSE Super_raw(node, own, detect)

\* `linaria${prop[0]?.toUpperCase()}${prop.slice(1)}`
LinariaProp(prop) == IF prop = "value" THEN "linariaValue" ELSE "linariaSelector"

rawValue(node, prop) ==
  IF node.raws[LinariaProp(prop)].has
  THEN node.raws[LinariaProp(prop)].val
  ELSE Super_rawValue(node, prop)

---------------------------------------------------------------------------
(* The node handlers.  Each yields the events of one call, for the node at *)
(* `path` under a root whose expression table is `exprs`.                  *)

\* new RegExp(`^${placeholderText}:\\d+$`).test(text)
PlaceholderPattern(text) ==
  LET n == Len(placeholderText) + 1
  IN /\ Len(text) > n
     /\ SubSeq(text, 1, n) = placeholderText \o <<":">>
     /\ IsDigits(SubSeq(text, n + 1, Len(text)))

\* Stringifier.comment
Super_comment(node, path) ==
  LET left == raw(node, "left", "commentLeft")
      right == raw(node, "right", "commentRight")
  IN Did("super.comment", Ref(node, path))
     \o Emit(<<"/", "*">> \o left \o node.text \o right \o <<"*", "/">>, Ref(node, path), "none")

comment(node, path, exprs) ==
  LET expressionIndex == Number(Second(Split(node.text, <<":">>)))
      expression == IF exprs.has /\ ~expressionIndex.nan
                    THEN Entry(exprs, expressionIndex) ELSE None
  IN IF PlaceholderPattern(node.text) /\ Truthy(expression)
     THEN Emit(expression.val, Ref(node, path), "none")
     ELSE Super_comment(node, path)

ImportantDefault == <<" ", "!", "i", "m", "p", "o", "r", "t", "a", "n", "t">>

\* DeclProp reading the index as comment does, after the colon
DeclPropAfterColon(node, exprs) ==
  LET expressionIndex == Number(Second(Split(node.prop, <<":">>)))
      expression == IF exprs.has /\ ~expressionIndex.nan
                    THEN Entry(exprs, expressionIndex) ELSE None
  IN IF Includes(node.prop, placeholderText) /\ Truthy(expression)
     THEN expression.val ELSE node.prop

\* the property name decl prints
DeclProp(node, exprs) ==
  LET expressionIndex == Number(Second(Split(node.prop, placeholderText)))
      expression == IF exprs.has /\ ~expressionIndex.nan
                    THEN Entry(exprs, expressionIndex) ELSE None
  IN IF Includes(node.prop, placeholderText) /\ Truthy(expression)
     THEN expression.val ELSE node.prop

\* the value decl prints, the selector rule prints
Substituted(node, prop, exprs) ==
  LET value == rawValue(node, prop)
  IN IF Includes(value, shortPlaceholderText)
     THEN substitutePlaceholders(value, exprs) ELSE value

decl(node, path, exprs, semicolon) ==
  LET between == raw(node, "between", "colon")
      string == DeclProp(node, exprs) \o between \o Substituted(node, "value", exprs)
      important == IF ~node.important THEN <<>>
                   ELSE IF Truthy(node.raws.important) THEN node.raws.important.val
                   ELSE ImportantDefault
  IN Emit(string \o important \o (IF semicolon THEN <<";">> ELSE <<>>), Ref(node, path), "none")

RECURSIVE stringify(_, _, _, _)
RECURSIVE body(_, _, _)
RECURSIVE bodyFrom(_, _, _, _)

\* the index of the last child that is not a trailing comment (body's `last`)
RECURSIVE LastOf(_, _)
LastOf(nodes, last) ==
  IF last > 1 /\ nodes[last].type = "comment" THEN LastOf(nodes, last - 1) ELSE last

\* Stringifier.body from child i on
bodyFrom(node, path, exprs, i) ==
  IF i > Len(node.nodes) THEN <<>>
  ELSE LET child == [node.nodes[i] EXCEPT !.parent = [type |-> node.type, first |-> i = 1]]
           before == raw(child, "before", "")
           semicolon == LastOf(node.nodes, Len(node.nodes)) # i \/ node.raws.semicolon
       IN (IF before # <<>> THEN Emit(before, NoNode, "none") ELSE <<>>)
          \o stringify(child, path \o <<i>>, exprs, semicolon)
          \o bodyFrom(node, path, exprs, i + 1)

body(node, path, exprs) == bodyFrom(node, path, exprs, 1)

\* Stringifier.block
block(node, path, exprs, start) ==
  LET between == raw(node, "between", "beforeOpen")
      after == IF node.nodes # <<>> THEN raw(node, "after", "")
               ELSE raw(node, "after", "emptyBody")
  IN Emit(start \o between \o <<"{">>, Ref(node, path), "start")
     \o (IF node.nodes # <<>> THEN body(node, path, exprs) ELSE <<>>)
     \o (IF after # <<>> THEN Emit(after, NoNode, "none") ELSE <<>>)
     \o Emit(<<"}">>, Ref(node, path), "end")

rule(node, path, exprs) ==
  block(node, path, exprs, Substituted(node, "selector", exprs))
  \o (IF Truthy(node.raws.ownSemicolon)
      THEN Emit(node.raws.ownSemicolon.val, Ref(node, path), "end") ELSE <<>>)

\* the trailing after text of root: node.raws.linariaAfter ?? node.raws.after
RootAfter(node) == IF node.raws.linariaAfter.has THEN node.raws.linariaAfter ELSE node.raws.after

\* root printing codeAfter ahead of the trailing after text
rootCodeAfterFirst(node, path) ==
  LET after == RootAfter(node)
  IN Emit(Coalesce(node.raws.codeBefore, <<>>), Ref(node, path), "start")
     \o body(node, path, node.raws.linariaTemplateExpressions)
     \o Emit(Coalesce(node.raws.codeAfter, <<>>), Ref(node, path), "end")
     \o (IF Truthy(after) THEN Emit(after.val, NoNode, "none") ELSE <<>>)

root(node, path) ==
  LET after == RootAfter(node)
  IN Emit(Coalesce(node.raws.codeBefore, <<>>), Ref(node, path), "start")
     \o body(node, path, node.raws.linariaTemplateExpressions)
     \o (IF Truthy(after) THEN Emit(after.val, NoNode, "none") ELSE <<>>)
     \o Emit(Coalesce(node.raws.codeAfter, <<>>), Ref(node, path), "end")

\* Stringifier.document
Super_document(node, path) ==
  Did("super.document", Ref(node, path)) \o body(node, path, None)

\* document leaving every document to the generic walk
documentGenericOnly(node, path) == Super_document(node, path)

document(node, path) ==
  IF Len(node.nodes) = 0
  THEN Emit(Coalesce(node.css, <<>>), NoNode, "none")
  ELSE Super_document(node, path)

\* Stringifier.stringify: this[node.type](node, semicolon)
stringify(node, path, exprs, semicolon) ==
  Did("visit", Ref(node, path))
  \o CASE node.type = "comment" -> comment(node, path, exprs)
       [] node.type = "decl" -> decl(node, path, exprs, semicolon)
       [] node.type = "rule" -> rule(node, path, exprs)
       [] node.type = "root" -> root(node, path)
       [] node.type = "document" -> document(node, path)

IsEmit(e) == e.kind = "emit"

IsOther(e) == e.kind # "emit"

\* the calls of this.builder among the events, as the wrapper receives them
Emitted(events) ==
  LET es == SelectSeq(events, IsEmit)
  IN [k \in 1..Len(es) |-> Frag(es[k].str, es[k].node, es[k].type)]

---------------------------------------------------------------------------
(* Input sets *)

\* expression texts are source text of an expression, never empty: a plain
\* one, and one with a backtick, a space and a backslash
ExprPlain == <<"x">>

ExprQuoted == <<BT, " ", BS>>

\* no table, and the tables of every length that alternate the two texts
Tables ==
  {None} \cup
  {Some([k \in 1..n |-> IF (k % 2 = 1) = plainFirst THEN ExprPlain ELSE ExprQuoted]) :
     n \in 0..MaxTable, plainFirst \in BOOLEAN}

SubstChars == {"a", "0", "1", " ", "S"}

\* the values substitutePlaceholders is called on; the last is the value
\* a <shortMarker>0 b of the documentation's example
SubstStrings == Str(SubstChars, MaxLen) \cup {<<"a", " ", "S", "0", " ", "b">>}

EscChars == {"a", BS, BT}

CommentChars == {"a", "0", "1", ":", "F"}

PropChars == {"a", "0", ":", "F", " "}

NodeRefs == {NoNode} \cup {[type |-> t, path |-> <<>>] : t \in {"root", "decl", "comment", "rule", "document"}}

Boundary == {"none", "start", "end"}

Slots == {"before", "after", "between"}

Override(slot) == IF slot = "before" THEN "linariaBefore"
                  ELSE IF slot = "after" THEN "linariaAfter" ELSE "linariaBetween"

\* a text per override slot, different from every generic raw of the inputs
OverrideText(slot) == IF slot = "before" THEN <<"\n", " ", " ">>
                      ELSE IF slot = "after" THEN <<"\n", " ">> ELSE <<" ", ":", " ">>

Generics == {None, Some(<<>>), Some(<<" ">>)}

Overrides(slot) == {None, Some(<<>>), Some(OverrideText(slot))}

\* node with raw slot `slot` set to g and its override to o
WithSlot(node, slot, g, o) ==
  [node EXCEPT !.raws = [@ EXCEPT ![slot] = g, ![Override(slot)] = o]]

Parents == {NoParent, [type |-> "root", first |-> TRUE], [type |-> "rule", first |-> FALSE]}

\* nodes for raw: every combination of the three slots and their overrides
RawNodes ==
  {[WithSlot(WithSlot(WithSlot(Node("decl"), "before", gb, ob), "after", ga, oa),
             "between", gw, ow) EXCEPT !.parent = p] :
     gb \in Generics, ob \in Overrides("before"),
     ga \in Generics, oa \in Overrides("after"),
     gw \in Generics, ow \in Overrides("between"), p \in {NoParent, [type |-> "rule", first |-> FALSE]}}

RawOwn == Slots \cup {"left", "right"}

RawDetect == {"", "colon", "emptyBody"}

RawPairs(v) == {None, Some([value |-> v, raw |-> v \o <<" ">>]), Some([value |-> <<"b">>, raw |-> <<"b", " ">>])}

RawValueNodes ==
  {[Node(t) EXCEPT !.value = v, !.selector = v,
                   !.raws = [@ EXCEPT !.value = rv, !.selector = rs,
                                      !.linariaValue = lv, !.linariaSelector = ls]] :
     t \in {"decl", "rule"}, v \in {<<"a">>, <<"S", "0">>},
     rv \in RawPairs(<<"a">>), rs \in RawPairs(<<"S", "0">>),
     lv \in {None, Some(<<>>), Some(<<"S", "1">>)}, ls \in {None, Some(<<"a">>)}}

CommentNodes ==
  {[Node("comment") EXCEPT !.text = t] : t \in Str(CommentChars, MaxLen)}
  \cup
  {[Node("comment") EXCEPT !.text = t, !.raws = [@ EXCEPT !.left = l, !.right = r]] :
     t \in {<<"a">>, <<"F", ":", "0">>, <<"F", ":", "2">>},
     l \in {None, Some(<<>>)}, r \in {None, Some(<<"\n">>)}}

\* declarations: every property name, every value, and the other fields
DeclTexts ==
  {[Node("decl") EXCEPT !.prop = q, !.value = <<"a">>, !.raws = [@ EXCEPT !.between = Some(<<":">>)]] :
     q \in Str(PropChars, MaxLen)}
  \cup
  {[Node("decl") EXCEPT !.prop = <<"a">>, !.value = v, !.raws = [@ EXCEPT !.between = Some(<<":">>)]] :
     v \in SubstStrings}

DeclVariants ==
  {[WithSlot(Node("decl"), "between", g, o) EXCEPT
      !.prop = <<"F", "0">>, !.value = <<"a", " ", "S", "1">>, !.important = i,
      !.raws = [@ EXCEPT !.important = ri, !.linariaValue = lv]] :
     g \in Generics, o \in Overrides("between"), i \in BOOLEAN,
     ri \in {None, Some(<<"!", "i">>)}, lv \in {None, Some(<<"S", "0">>)}}

\* the calls of decl: (node, semicolon)
DeclCalls == (DeclTexts \X {TRUE}) \cup (DeclVariants \X BOOLEAN)

\* children of the trees: comments, declarations, and rules over them
Leaves ==
  {[WithSlot(Node("comment"), "before", g, Some(OverrideText("before"))) EXCEPT
      !.text = <<"F", ":", "0">>] : g \in Generics}
  \cup
  {[WithSlot([Node("decl") EXCEPT !.raws = [@ EXCEPT !.before = Some(<<"\n">>)]], "between", g, o)
      EXCEPT !.prop = <<"F", "0">>, !.value = <<"S", "1">>] :
     g \in {None, Some(<<":">>)}, o \in {None, Some(OverrideText("between"))}}

Decl0 == [Node("decl") EXCEPT !.prop = <<"a">>, !.value = <<"S", "0">>,
                               !.raws = [@ EXCEPT !.before = Some(<<" ">>), !.between = Some(<<":">>)]]

Comment0 == [Node("comment") EXCEPT !.text = <<"F", ":", "1">>]

Rules ==
  {[WithSlot(Node("rule"), "after", g, Some(OverrideText("after"))) EXCEPT
      !.selector = <<"S", "1">>, !.nodes = <<Decl0>>] : g \in Generics}
  \cup
  {[WithSlot(Node("rule"), "after", g, None) EXCEPT !.selector = <<"a">>, !.nodes = n] :
     g \in {Some(<<" ">>)}, n \in {<<Decl0>>, <<Decl0, Comment0>>}}
  \cup
  {[WithSlot(Node("rule"), "after", g, Some(OverrideText("after"))) EXCEPT !.selector = <<"a">>] :
     g \in {None}}
  \cup
  {[WithSlot(Node("rule"), "between", g, Some(OverrideText("between"))) EXCEPT
      !.selector = <<"a">>, !.raws = [@ EXCEPT !.ownSemicolon = Some(<<";">>)]] :
     g \in {None, Some(<<" ">>)}}

RuleNodes ==
  Rules
  \cup
  {[Node("rule") EXCEPT !.selector = v, !.nodes = n] :
     v \in SubstStrings, n \in {<<>>}}
  \cup
  {[Node("rule") EXCEPT !.selector = <<"a">>, !.nodes = n, !.raws = [@ EXCEPT !.semicolon = sc]] :
     n \in Str(Leaves \cup {Decl0}, MaxChildren), sc \in BOOLEAN}

\* the calls of rule: (node, expressions)
RuleCalls ==
  (Rules \X Tables)
  \cup ({n \in RuleNodes : n.nodes = <<>>} \X Tables)
  \cup (RuleNodes \X {Some(<<ExprPlain, ExprQuoted>>)})

Children == Leaves \cup Rules

\* roots: every combination of the root's own raws over few children, every
\* sequence of children under four roots, and roots without a table
RootNodes ==
  {[WithSlot(Node("root"), "after", g, o) EXCEPT
      !.nodes = n,
      !.raws = [@ EXCEPT !.codeBefore = cb, !.codeAfter = ca,
                         !.linariaTemplateExpressions = Some(<<ExprPlain, ExprQuoted>>)]] :
     g \in Generics \cup {Some(<<"\n">>)}, o \in Overrides("after"),
     cb \in {None, Some(<<BT>>)}, ca \in {None, Some(<<BT, ";">>)},
     n \in Str({Decl0, Comment0}, MaxChildren)}
  \cup
  {[WithSlot(Node("root"), "after", g, o) EXCEPT
      !.nodes = n, !.raws = [@ EXCEPT !.linariaTemplateExpressions = Some(<<ExprPlain, ExprQuoted>>)]] :
     g \in {None, Some(<<"\n">>)}, o \in {None, Some(OverrideText("after"))},
     n \in Str(Children, MaxChildren)}
  \cup
  {[Node("root") EXCEPT !.nodes = n] : n \in Str({Decl0, Comment0}, MaxChildren)}

Root0 == [Node("root") EXCEPT !.nodes = <<Decl0>>,
                              !.raws = [@ EXCEPT !.codeBefore = Some(<<"c", BT>>), !.codeAfter = Some(<<BT>>),
                                                 !.linariaTemplateExpressions = Some(<<<<BT>>>>)]]

DocumentRoots ==
  {Root0, [Root0 EXCEPT !.nodes = <<>>]}
  \cup {WithSlot(Root0, "before", g, Some(OverrideText("before"))) : g \in Generics}

DocumentNodes ==
  {[Node("document") EXCEPT !.nodes = n, !.css = c] :
     n \in Str(DocumentRoots, MaxChildren),
     c \in {None, Some(<<>>), Some(<<"a", BT, BS>>)}}

---------------------------------------------------------------------------
Init ==
  /\ call = [op |-> "init"]
  /\ wrapped = <<>>
  /\ sink = <<>>
  /\ gen = <<>>
  /\ result = None

\* A call starts on a stringifier that has printed nothing yet
Fresh == call.op = "init"

\* the logs of a handler call that made `events`
Printed(events) ==
  /\ wrapped' = Emitted(events)
  /\ sink' = Built(Emitted(events))
  /\ gen' = SelectSeq(events, IsOther)
  /\ result' = None

\* the value of a call that prints nothing
Returned(value) ==
  /\ wrapped' = <<>>
  /\ sink' = <<>>
  /\ gen' = <<>>
  /\ result' = Some(value)

CallSubstitute ==
  /\ Fresh
  /\ \E s \in SubstStrings, t \in Tables :
       /\ call' = [op |-> "substitutePlaceholders", str |-> s, expressions |-> t]
       /\ Returned(substitutePlaceholders(s, t))

CallBuilder ==
  /\ Fresh
  /\ \E s \in Str(EscChars, MaxLen), n \in NodeRefs, b \in Boundary :
       /\ call' = [op |-> "builder", str |-> s, node |-> n, type |-> b]
       /\ Printed(Emit(s, n, b))

CallRaw ==
  /\ Fresh
  /\ \E n \in RawNodes, own \in RawOwn, detect \in RawDetect :
       /\ call' = [op |-> "raw", node |-> n, own |-> own, detect |-> detect]
       /\ Returned(raw(n, own, detect))

CallRawValue ==
  /\ Fresh
  /\ \E n \in RawValueNodes, prop \in {"value", "selector"} :
       /\ call' = [op |-> "rawValue", node |-> n, prop |-> prop]
       /\ Returned(rawValue(n, prop))

CallComment ==
  /\ Fresh
  /\ \E n \in CommentNodes, t \in Tables :
       /\ call' = [op |-> "comment", node |-> n, expressions |-> t]
       /\ Printed(comment(n, <<>>, t))

CallDecl ==
  /\ Fresh
  /\ \E c \in DeclCalls, t \in Tables :
       /\ call' = [op |-> "decl", node |-> c[1], expressions |-> t, semicolon |-> c[2]]
       /\ Printed(decl(c[1], <<>>, t, c[2]))

CallRule ==
  /\ Fresh
  /\ \E c \in RuleCalls :
       /\ call' = [op |-> "rule", node |-> c[1], expressions |-> c[2]]
       /\ Printed(rule(c[1], <<>>, c[2]))

CallRoot ==
  /\ Fresh
  /\ \E n \in RootNodes :
       /\ call' = [op |-> "root", node |-> n]
       /\ Printed(root(n, <<>>))

CallDocument ==
  /\ Fresh
  /\ \E n \in DocumentNodes :
       /\ call' = [op |-> "document", node |-> n]
       /\ Printed(document(n, <<>>))

Next ==
  \/ CallSubstitute
  \/ CallBuilder
  \/ CallRaw
  \/ CallRawValue
  \/ CallComment
  \/ CallDecl
  \/ CallRule
  \/ CallRoot
  \/ CallDocument

Spec == Init /\ [][Next]_vars

---------------------------------------------------------------------------
(* Properties *)

HasKind(events, kind) == \E k \in 1..Len(events) : events[k].kind = kind

StartsWith(s, pre) == Len(pre) <= Len(s) /\ SubSeq(s, 1, Len(pre)) = pre

\* one pass over the text: a backslash is doubled, a backtick gets a backslash
EscapeOnePass(str) ==
  Concat([k \in 1..Len(str) |->
            IF str[k] = BS THEN <<BS, BS>> ELSE IF str[k] = BT THEN <<BS, BT>> ELSE <<str[k]>>])

PassesThrough(f) == f.node = NoNode \/ f.node.type = "root"

(* C1: every call of the wrapped builder makes exactly one call of the     *)
(* caller's builder, with the same node and boundary marker; the text is   *)
(* unchanged when there is no node or the node is a root, and otherwise    *)
(* has every backslash doubled and then every backtick preceded by one     *)
(* backslash, so that backslash+backtick becomes two backslashes,          *)
(* backslash, backtick.                                                    *)
C1_EscapingWrapper ==
  /\ Len(sink) = Len(wrapped)
  /\ \A k \in 1..Len(wrapped) :
       /\ sink[k].node = wrapped[k].node
       /\ sink[k].type = wrapped[k].type
       /\ sink[k].str = IF PassesThrough(wrapped[k]) THEN wrapped[k].str
                        ELSE EscapeOnePass(wrapped[k].str)
       /\ (~PassesThrough(wrapped[k]) /\ wrapped[k].str = <<BS, BT>>)
            => sink[k].str = <<BS, BS, BS, BT>>
  /\ call.op = "builder" => wrapped = <<Frag(call.str, call.node, call.type)>>

C1_Witness ==
  /\ call.op = "builder"
  /\ call.node.type = "decl"
  /\ call.str = <<BS, BT>>
  /\ sink = <<Frag(<<BS, BS, BS, BT>>, call.node, call.type)>>

\* a token that is exactly <shortMarker><i>, i a decimal index
IsShortPlaceholder(tok) ==
  /\ Len(tok) > Len(shortPlaceholderText)
  /\ StartsWith(tok, shortPlaceholderText)
  /\ IsDigits(SubSeq(tok, Len(shortPlaceholderText) + 1, Len(tok)))

ShortIndex(tok) == Dec(SubSeq(tok, Len(shortPlaceholderText) + 1, Len(tok)))

\* tokens C2 speaks of: a placeholder of a present entry, or a token without marker
Covered(tok, t) ==
  \/ ~Includes(tok, shortPlaceholderText)
  \/ IsShortPlaceholder(tok) /\ t.has /\ ShortIndex(tok) < Len(t.val)

Expected(tok, t) ==
  IF Includes(tok, shortPlaceholderText) THEN t.val[ShortIndex(tok) + 1] ELSE tok

\* out is the tokens printed in order with single spaces between them, every
\* covered token printed as expected
RECURSIVE TokensPrinted(_, _, _)
TokensPrinted(out, toks, t) ==
  LET tok == Head(toks)
      exp == Expected(tok, t)
  IN IF Len(toks) = 1 THEN Covered(tok, t) => out = exp
     ELSE IF Covered(tok, t)
     THEN /\ StartsWith(out, exp \o <<" ">>)
          /\ TokensPrinted(SubSeq(out, Len(exp) + 2, Len(out)), Tail(toks), t)
     ELSE \E i \in 1..Len(out) :
            /\ out[i] = " "
            /\ TokensPrinted(SubSeq(out, i + 1, Len(out)), Tail(toks), t)

ValuePrinted(out, value, t) ==
  IF Includes(value, shortPlaceholderText)
  THEN TokensPrinted(out, Split(value, <<" ">>), t)
  ELSE out = value

\* a declaration or rule whose value or selector comes from the node itself
PlainText(node, prop) == ~node.raws[prop].has /\ ~node.raws[LinariaProp(prop)].has

C5_OverridePrecedence ==
  call.op = "raw" =>
    LET n == call.node
        own == call.own
        generic == Super_raw(n, own, call.detect)
    IN /\ own \in Slots /\ Truthy(n.raws[own]) /\ Truthy(n.raws[Override(own)])
            => result = Some(n.raws[Override(own)].val)
       /\ own \in Slots /\ ~Truthy(n.raws[own]) => result = Some(generic)
       /\ own \notin Slots => result = Some(generic)

C5_Witness ==
  /\ call.op = "raw"
  /\ call.own = "before"
  /\ call.node.raws.before = Some(<<" ">>)
  /\ call.node.raws.linariaBefore = Some(<<"\n", " ", " ">>)
  /\ result = Some(<<"\n", " ", " ">>)

(* C6: a document without children prints one fragment, the input text     *)
(* captured at parse time or the empty string, with no node attached and   *)
(* so unescaped, and the generic document walk is not called; a document   *)
(* with children is printed by the generic document walk.                  *)
C6_EmptyDocument ==
  call.op = "document" =>
    IF call.node.nodes = <<>>
    THEN /\ sink = <<Frag(Coalesce(call.node.css, <<>>), NoNode, "none")>>
         /\ ~HasKind(gen, "super.document")
    ELSE /\ gen # <<>> /\ gen[1].kind = "super.document"
         /\ wrapped = Emitted(Super_document(call.node, <<>>))

C6_Witness ==
  /\ call.op = "document"
  /\ call.node.nodes = <<>>
  /\ call.node.css = Some(<<"a", BT, BS>>)
  /\ sink = <<Frag(<<"a", BT, BS>>, NoNode, "none")>>

\* a text that is exactly <fullMarker>:<i>, i a decimal index
IsFullPlaceholder(text) ==
  /\ Len(text) > Len(placeholderText) + 1
  /\ StartsWith(text, placeholderText \o <<":">>)
  /\ IsDigits(SubSeq(text, Len(placeholderText) + 2, Len(text)))

FullIndex(text) == Dec(SubSeq(text, Len(placeholderText) + 2, Len(text)))

\* a property name that is exactly <fullMarker><i>, without a colon
IsMarkerIndex(text) ==
  /\ Len(text) > Len(placeholderText)
  /\ StartsWith(text, placeholderText)
  /\ IsDigits(SubSeq(text, Len(placeholderText) + 1, Len(text)))

MarkerIndex(text) == Dec(SubSeq(text, Len(placeholderText) + 1, Len(text)))

Present(t, i) == t.has /\ i < Len(t.val)

\* what decl appends to the property name
DeclRest(c) ==
  raw(c.node, "between", "colon") \o Substituted(c.node, "value", c.expressions)
  \o (IF ~c.node.important THEN <<>>
      ELSE IF Truthy(c.node.raws.important) THEN c.node.raws.important.val
      ELSE ImportantDefault)
  \o (IF c.semicolon THEN <<";">> ELSE <<>>)

Unresolvable(indexText, t) ==
  \/ ~t.has
  \/ ~IsDigits(indexText)
  \/ Dec(indexText) >= Len(t.val)

\* a token that is the short marker followed by an index text naming no entry
IsUnresolvableToken(tok, t) ==
  /\ StartsWith(tok, shortPlaceholderText)
  /\ ~Includes(SubSeq(tok, Len(shortPlaceholderText) + 1, Len(tok)), shortPlaceholderText)
  /\ Unresolvable(SubSeq(tok, Len(shortPlaceholderText) + 1, Len(tok)), t)

AllFailOpen(value, t) ==
  \A k \in 1..Len(Split(value, <<" ">>)) :
    \/ ~Includes(Split(value, <<" ">>)[k], shortPlaceholderText)
    \/ IsUnresolvableToken(Split(value, <<" ">>)[k], t)

(* C4: a placeholder whose index names no entry (no table, index outside   *)
(* the table, index text not a non-empty string of decimal digits) is      *)
(* printed unchanged: the comment by the generic comment handler, the      *)
(* property name, the value tokens and the selector tokens as they stand.  *)
C4_FailOpen ==
  /\ (/\ call.op = "comment"
      /\ StartsWith(call.node.text, placeholderText \o <<":">>)
      /\ Unresolvable(SubSeq(call.node.text, Len(placeholderText) + 2, Len(call.node.text)),
                      call.expressions))
       => /\ HasKind(gen, "super.comment")
          /\ wrapped = Emitted(Super_comment(call.node, <<>>))
  /\ (/\ call.op = "decl"
      /\ StartsWith(call.node.prop, placeholderText \o <<":">>)
      /\ Unresolvable(SubSeq(call.node.prop, Len(placeholderText) + 2, Len(call.node.prop)),
                      call.expressions))
       => Len(wrapped) = 1 /\ StartsWith(wrapped[1].str, call.node.prop)
  /\ (call.op = "substitutePlaceholders" /\ AllFailOpen(call.str, call.expressions))
       => result = Some(call.str)
  /\ (call.op = "decl" /\ PlainText(call.node, "value")
      /\ AllFailOpen(call.node.value, call.expressions))
       => Len(wrapped) = 1
          /\ wrapped[1].str = DeclProp(call.node, call.expressions)
                              \o raw(call.node, "between", "colon") \o call.node.value
                              \o (IF ~call.node.important THEN <<>>
                                  ELSE IF Truthy(call.node.raws.important)
                                  THEN call.node.raws.important.val ELSE ImportantDefault)
                              \o (IF call.semicolon THEN <<";">> ELSE <<>>)
  /\ (call.op = "rule" /\ PlainText(call.node, "selector")
      /\ AllFailOpen(call.node.selector, call.expressions))
       => StartsWith(wrapped[1].str, call.node.selector \o raw(call.node, "between", "beforeOpen"))

\* the text between the first occurrence of the short marker in a token and
\* the next one, or the end of the token
IndexTextOf(tok) ==
  LET i == IndexOf(tok, shortPlaceholderText, 1)
      j == IndexOf(tok, shortPlaceholderText, i + Len(shortPlaceholderText))
  IN SubSeq(tok, i + Len(shortPlaceholderText), IF j = 0 THEN Len(tok) ELSE j - 1)

\* Number() reads the text of a token as the index of an entry: decimal
\* digits, or nothing at all, which it reads as 0
ReadAsIndex(x) == IF x = <<>> THEN 0 ELSE Dec(x)

ReadsAsEntry(x, t) == t.has /\ (x = <<>> \/ IsDigits(x)) /\ ReadAsIndex(x) < Len(t.val)

TokenPrinted(tok, t) ==
  IF Includes(tok, shortPlaceholderText) /\ ReadsAsEntry(IndexTextOf(tok), t)
  THEN t.val[ReadAsIndex(IndexTextOf(tok)) + 1] ELSE tok

(* C7, as the spec states it: a token holding the short marker inside a    *)
(* larger token, with characters before the marker and its index or with   *)
(* other text around a non-empty index text, is kept verbatim.             *)
C7_LargerTokenKept ==
  (/\ call.op = "substitutePlaceholders"
   /\ ~Includes(call.str, <<" ">>)
   /\ Includes(call.str, shortPlaceholderText)
   /\ IndexTextOf(call.str) # <<>>
   /\ \/ /\ IndexOf(call.str, shortPlaceholderText, 1) > 1
         /\ IsShortPlaceholder(SubSeq(call.str, IndexOf(call.str, shortPlaceholderText, 1),
                                      Len(call.str)))
      \/ /\ StartsWith(call.str, shortPlaceholderText)
         /\ Len(call.str) > Len(shortPlaceholderText)
         /\ ~IsShortPlaceholder(call.str))
    => result = Some(call.str)

(* C7, amended: a token is replaced exactly when it holds the short marker *)
(* and the text between the marker's first occurrence and its next one (or *)
(* the token's end) is read by Number() as the index of an entry; what     *)
(* precedes the first marker or follows a second one is dropped with the   *)
(* token; a token whose index text is not read as a number is kept.        *)
C7_FirstMarkerIndexDecides ==
  call.op = "substitutePlaceholders" =>
    LET toks == Split(call.str, <<" ">>)
    IN result = Some(IF Includes(call.str, shortPlaceholderText)
                     THEN Join([k \in 1..Len(toks) |-> TokenPrinted(toks[k], call.expressions)],
                               <<" ">>)
                     ELSE call.str)

C7_Witness ==
  /\ call.op = "substitutePlaceholders"
  /\ call.str = <<"a", "S", "0">>
  /\ call.expressions = Some(<<<<"x">>>>)
  /\ result = Some(<<"x">>)

(* C8: a comment whose text is exactly <fullMarker>:<digits>, the index    *)
(* naming an entry, sends the caller's builder exactly one fragment, the   *)
(* entry's text character for character, and the generic comment handler   *)
(* is not called.                                                          *)
C8_CommentVerbatim ==
  (/\ call.op = "comment"
   /\ IsFullPlaceholder(call.node.text)
   /\ Present(call.expressions, FullIndex(call.node.text)))
    => /\ sink = <<Frag(call.expressions.val[FullIndex(call.node.text) + 1],
                        Ref(call.node, <<>>), "none")>>
       /\ ~HasKind(gen, "super.comment")

\* the handlers of a call that prints a node
Prints == {"comment", "decl", "rule", "root", "document"}

Handled(c, node) ==
  CASE c.op = "comment" -> comment(node, <<>>, c.expressions)
    [] c.op = "decl" -> decl(node, <<>>, c.expressions, c.semicolon)
    [] c.op = "rule" -> rule(node, <<>>, c.expressions)
    [] c.op = "root" -> root(node, <<>>)
    [] c.op = "document" -> document(node, <<>>)

\* the tree without the overrides of before, after and between whose generic
\* raw value is empty or absent; keepRootAfter leaves linariaAfter of a root
RECURSIVE WithoutIdleOverrides(_, _)
WithoutIdleOverrides(node, keepRootAfter) ==
  [node EXCEPT
     !.raws = [@ EXCEPT
       !.linariaBefore = IF Truthy(node.raws.before) THEN @ ELSE None,
       !.linariaBetween = IF Truthy(node.raws.between) THEN @ ELSE None,
       !.linariaAfter = IF Truthy(node.raws.after) \/ (keepRootAfter /\ node.type = "root")
                        THEN @ ELSE None],
     !.nodes = [k \in 1..Len(node.nodes) |-> WithoutIdleOverrides(node.nodes[k], keepRootAfter)]]

(* C9, as the spec states it: for every node, the root included, an        *)
(* override of before, after or between reaches the output only if the     *)
(* node's generic raw value of the slot is non-empty.                      *)
C9_NoOverrideWithoutGeneric ==
  call.op \in Prints => wrapped = Emitted(Handled(call, WithoutIdleOverrides(call.node, FALSE)))

(* C9, amended: an override of before, after or between resolved by raw    *)
(* reaches the output only if the node's generic raw value of the slot is  *)
(* non-empty; the trailing after fragment of root is the exception, it     *)
(* prints a non-empty linariaAfter also when raws.after is empty or absent.*)
C9_OverrideOnlyThroughRaw ==
  call.op \in Prints =>
    /\ wrapped = Emitted(Handled(call, WithoutIdleOverrides(call.node, TRUE)))
    /\ (call.op = "root" /\ Truthy(call.node.raws.linariaAfter))
         => /\ Len(sink) >= 3
            /\ sink[Len(sink) - 1] = Frag(call.node.raws.linariaAfter.val, NoNode, "none")

C9_Witness ==
  /\ call.op = "root"
  /\ ~Truthy(call.node.raws.after)
  /\ Truthy(call.node.raws.linariaAfter)
  /\ Len(call.node.nodes) = 1
  /\ call.node.nodes[1].raws.before = Some(<<>>)
  /\ Truthy(call.node.nodes[1].raws.linariaBefore)
  /\ Len(sink) = 4
  /\ sink[2].node.path = <<1>>
  /\ sink[3] = Frag(call.node.raws.linariaAfter.val, NoNode, "none")

\* the fragments of a root around those of its children
RootFirst(node) == Frag(Coalesce(node.raws.codeBefore, <<>>), Ref(node, <<>>), "start")

RootLast(node) == Frag(Coalesce(node.raws.codeAfter, <<>>), Ref(node, <<>>), "end")

RootChildren(node) == Built(Emitted(body(node, <<>>, node.raws.linariaTemplateExpressions)))

\* linariaAfter when present, otherwise raws.after, the empty string when absent
AfterText(node) ==
  IF node.raws.linariaAfter.has THEN node.raws.linariaAfter.val
  ELSE Coalesce(node.raws.after, <<>>)

IsVisit(e) == e.kind = "visit" /\ Len(e.node.path) = 1

\* the children of the printed node visited, in the order of the visits
Visits == [k \in 1..Len(SelectSeq(gen, IsVisit)) |-> SelectSeq(gen, IsVisit)[k].node.path[1]]

\* the fragments that carry a node below the root come in document order
InDocumentOrder ==
  \A i, j \in 1..Len(sink) :
    (i < j /\ sink[i].node.path # <<>> /\ sink[j].node.path # <<>>)
      => sink[i].node.path[1] <= sink[j].node.path[1]

(* C10, as the spec states it: a root sends the builder its codeBefore     *)
(* fragment, the fragments of its children, the trailing after fragment    *)
(* (linariaAfter when present, otherwise raws.after) and its codeAfter     *)
(* fragment, in this order, whenever one of the two after values is there. *)
C10_AfterFragmentAlways ==
  (call.op = "root" /\ (call.node.raws.linariaAfter.has \/ call.node.raws.after.has)) =>
    sink = <<RootFirst(call.node)>> \o RootChildren(call.node)
           \o <<Frag(AfterText(call.node), NoNode, "none")>> \o <<RootLast(call.node)>>

(* C10, amended: a root sends the builder its codeBefore fragment first,   *)
(* then the fragments of its children in document order, every child       *)
(* visited once, then the trailing after fragment when its text is not     *)
(* empty and no after fragment otherwise, and its codeAfter fragment last. *)
C10_RootFragmentOrder ==
  call.op = "root" =>
    /\ sink = <<RootFirst(call.node)>> \o RootChildren(call.node)
              \o (IF AfterText(call.node) # <<>>
                  THEN <<Frag(AfterText(call.node), NoNode, "none")>> ELSE <<>>)
              \o <<RootLast(call.node)>>
    /\ Visits = [k \in 1..Len(call.node.nodes) |-> k]
    /\ InDocumentOrder

C10_Witness ==
  /\ call.op = "root"
  /\ Len(call.node.nodes) = 2
  /\ call.node.raws.linariaAfter = Some(<<"\n", " ">>)
  /\ call.node.raws.after = Some(<<"\n">>)
  /\ call.node.raws.codeBefore = Some(<<BT>>)
  /\ Len(sink) >= 5
  /\ sink[1] = Frag(<<BT>>, Ref(call.node, <<>>), "start")
  /\ sink[Len(sink) - 1] = Frag(<<"\n", " ">>, NoNode, "none")
  /\ sink[Len(sink)].type = "end"

====
